---- MODULE Spec2Model ----
(***************************************************************************)
(* yolobox: configuration resolution (defaults, global file, project file, *)
(* command-line flags, setup wizard) and the construction of the container *)
(* runtime's argument vector, modelled from cmd/yolobox/main.go.           *)
(* Go strings are TLA+ strings; TLC evaluates Len, \o and SubSeq on them.  *)
(***************************************************************************)
EXTENDS Integers, Sequences, FiniteSets, TLC

VARIABLES
    globalFile,   \* the global config file: [state, cfg]
    projectFile,  \* <project>/.yolobox.toml: [state, cfg]
    pc,           \* position of the running command
    sub,          \* subcommand of the running command
    flags,        \* the command line's flags, as parsed by the flag set
    cfg,          \* the Config in the hands of the running command
    err,          \* the error the running command returned ("" = none)
    wizard,       \* what the setup form returned
    command,      \* the command handed to runCommand
    interactive,  \* the interactive argument of runCommand
    host,         \* the host environment seen by buildRunArgs
    args,         \* the argument vector returned by buildRunArgs
    staging,      \* the host paths created by buildRunArgs
    call          \* a direct call of one function: its inputs and its result

vars == <<globalFile, projectFile, pc, sub, flags, cfg, err, wizard, command,
          interactive, host, args, staging, call>>

----------------------------------------------------------------------------
(* strings, path/filepath *)

HasPrefix(s, p) == Len(s) >= Len(p) /\ SubSeq(s, 1, Len(p)) = p

HasSuffix(s, p) == Len(s) >= Len(p) /\ SubSeq(s, Len(s) - Len(p) + 1, Len(s)) = p

\* strings.Index for a one-character separator, 1-based; 0 when absent
RECURSIVE IndexFrom(_, _, _)
IndexFrom(s, c, i) ==
    IF i > Len(s) THEN 0
    ELSE IF SubSeq(s, i, i) = c THEN i
    ELSE IndexFrom(s, c, i + 1)

Index(s, c) == IndexFrom(s, c, 1)

\* strings.SplitN(s, sep, n) for a one-character separator and n >= 1
RECURSIVE SplitN(_, _, _)
SplitN(s, sep, n) ==
    LET i == Index(s, sep)
    IN  IF n <= 1 \/ i = 0 THEN <<s>>
        ELSE <<SubSeq(s, 1, i - 1)>> \o SplitN(SubSeq(s, i + 1, Len(s)), sep, n - 1)

\* strings.Split(s, "/")
RECURSIVE SplitSlash(_)
SplitSlash(s) ==
    LET i == Index(s, "/")
    IN  IF i = 0 THEN <<s>>
        ELSE <<SubSeq(s, 1, i - 1)>> \o SplitSlash(SubSeq(s, i + 1, Len(s)))

RECURSIVE JoinSlash(_)
JoinSlash(segs) ==
    IF segs = <<>> THEN ""
    ELSE IF Len(segs) = 1 THEN segs[1]
    ELSE segs[1] \o "/" \o JoinSlash(Tail(segs))

IsAbs(path) == HasPrefix(path, "/")

\* the element stack of filepath.Clean: "." and empty elements are dropped,
\* ".." removes the element before it, is dropped at the root and kept at the
\* head of a relative path
RECURSIVE CleanSegs(_, _, _)
CleanSegs(segs, out, rooted) ==
    IF segs = <<>> THEN out
    ELSE LET s == Head(segs)
             rest == Tail(segs)
         IN  IF s = "" \/ s = "." THEN CleanSegs(rest, out, rooted)
             ELSE IF s = ".." THEN
                 IF out # <<>> /\ out[Len(out)] # ".."
                 THEN CleanSegs(rest, SubSeq(out, 1, Len(out) - 1), rooted)
                 ELSE IF rooted THEN CleanSegs(rest, out, rooted)
                 ELSE CleanSegs(rest, Append(out, ".."), rooted)
             ELSE CleanSegs(rest, Append(out, s), rooted)

Clean(path) ==
    IF path = "" THEN "."
    ELSE LET rooted == IsAbs(path)
             out == CleanSegs(SplitSlash(path), <<>>, rooted)
         IN  IF rooted THEN "/" \o JoinSlash(out)
             ELSE IF out = <<>> THEN "."
             ELSE JoinSlash(out)

\* filepath.Join of two elements: empty elements are ignored, the rest is
\* joined with a separator and cleaned
Join(a, b) ==
    IF a = "" /\ b = "" THEN ""
    ELSE IF a = "" THEN Clean(b)
    ELSE IF b = "" THEN Clean(a)
    ELSE Clean(a \o "/" \o b)

----------------------------------------------------------------------------
(* Config *)

StringFields == {"Runtime", "Image", "Network"}

BoolFields == {"SSHAgent", "ReadonlyProject", "NoNetwork", "NoYolo", "Scratch",
               "ClaudeConfig", "GitConfig", "GhToken", "CopyAgentInstructions"}

ListFields == {"Mounts", "Env"}

\* Config{}
ZeroConfig ==
    [Runtime |-> "", Image |-> "", Mounts |-> <<>>, Env |-> <<>>,
     SSHAgent |-> FALSE, ReadonlyProject |-> FALSE, NoNetwork |-> FALSE,
     Network |-> "", NoYolo |-> FALSE, Scratch |-> FALSE,
     ClaudeConfig |-> FALSE, GitConfig |-> FALSE, GhToken |-> FALSE,
     CopyAgentInstructions |-> FALSE, Setup |-> FALSE]

defaultConfig == [ZeroConfig EXCEPT !.Image = "ghcr.io/finbarr/yolobox:latest"]

\* mergeConfig with the list fields appended to dst instead of replacing it
mergeConfigAppend(dst, src) ==
    [Runtime |-> IF src.Runtime # "" THEN src.Runtime ELSE dst.Runtime,
     Image |-> IF src.Image # "" THEN src.Image ELSE dst.Image,
     Mounts |-> dst.Mounts \o src.Mounts,
     Env |-> dst.Env \o src.Env,
     SSHAgent |-> IF src.SSHAgent THEN TRUE ELSE dst.SSHAgent,
     ReadonlyProject |-> IF src.ReadonlyProject THEN TRUE ELSE dst.ReadonlyProject,
     NoNetwork |-> IF src.NoNetwork THEN TRUE ELSE dst.NoNetwork,
     Network |-> IF src.Network # "" THEN src.Network ELSE dst.Network,
     NoYolo |-> IF src.NoYolo THEN TRUE ELSE dst.NoYolo,
     Scratch |-> IF src.Scratch THEN TRUE ELSE dst.Scratch,
     ClaudeConfig |-> IF src.ClaudeConfig THEN TRUE ELSE dst.ClaudeConfig,
     GitConfig |-> IF src.GitConfig THEN TRUE ELSE dst.GitConfig,
     GhToken |-> IF src.GhToken THEN TRUE ELSE dst.GhToken,
     CopyAgentInstructions |->
         IF src.CopyAgentInstructions THEN TRUE ELSE dst.CopyAgentInstructions,
     Setup |-> dst.Setup]

\* mergeConfig with the boolean and string fields copied from src unconditionally
mergeConfigCopy(dst, src) ==
    [Runtime |-> src.Runtime,
     Image |-> src.Image,
     Mounts |-> IF Len(src.Mounts) > 0 THEN src.Mounts ELSE dst.Mounts,
     Env |-> IF Len(src.Env) > 0 THEN src.Env ELSE dst.Env,
     SSHAgent |-> src.SSHAgent,
     ReadonlyProject |-> src.ReadonlyProject,
     NoNetwork |-> src.NoNetwork,
     Network |-> src.Network,
     NoYolo |-> src.NoYolo,
     Scratch |-> src.Scratch,
     ClaudeConfig |-> src.ClaudeConfig,
     GitConfig |-> src.GitConfig,
     GhToken |-> src.GhToken,
     CopyAgentInstructions |-> src.CopyAgentInstructions,
     Setup |-> dst.Setup]

mergeConfig(dst, src) ==
    [Runtime |-> IF src.Runtime # "" THEN src.Runtime ELSE dst.Runtime,
     Image |-> IF src.Image # "" THEN src.Image ELSE dst.Image,
     Mounts |-> IF Len(src.Mounts) > 0 THEN src.Mounts ELSE dst.Mounts,
     Env |-> IF Len(src.Env) > 0 THEN src.Env ELSE dst.Env,
     SSHAgent |-> IF src.SSHAgent THEN TRUE ELSE dst.SSHAgent,
     ReadonlyProject |-> IF src.ReadonlyProject THEN TRUE ELSE dst.ReadonlyProject,
     NoNetwork |-> IF src.NoNetwork THEN TRUE ELSE dst.NoNetwork,
     Network |-> IF src.Network # "" THEN src.Network ELSE dst.Network,
     NoYolo |-> IF src.NoYolo THEN TRUE ELSE dst.NoYolo,
     Scratch |-> IF src.Scratch THEN TRUE ELSE dst.Scratch,
     ClaudeConfig |-> IF src.ClaudeConfig THEN TRUE ELSE dst.ClaudeConfig,
     GitConfig |-> IF src.GitConfig THEN TRUE ELSE dst.GitConfig,
     GhToken |-> IF src.GhToken THEN TRUE ELSE dst.GhToken,
     CopyAgentInstructions |->
         IF src.CopyAgentInstructions THEN TRUE ELSE dst.CopyAgentInstructions,
     Setup |-> dst.Setup]

\* A config file on disk.  state: "missing" (stat reports not-exist),
\* "unreadable" (stat fails otherwise), "malformed" (present, not valid TOML),
\* "ok" (decodes to cfg).  The global file may also be "nopath": its location
\* cannot be determined (globalConfigPath fails).
NoFile(st) == [state |-> st, cfg |-> ZeroConfig]

File(c) == [state |-> "ok", cfg |-> c]

\* mergeConfigFile that treats a missing file as an error
mergeConfigFileStrict(file, c) ==
    IF file.state = "ok" THEN [cfg |-> mergeConfig(c, file.cfg), err |-> ""]
    ELSE [cfg |-> c, err |-> file.state]

mergeConfigFile(file, c) ==
    IF file.state = "missing" THEN [cfg |-> c, err |-> ""]
    ELSE IF file.state = "unreadable" THEN [cfg |-> c, err |-> "stat"]
    ELSE IF file.state = "malformed" THEN [cfg |-> c, err |-> "toml"]
    ELSE [cfg |-> mergeConfig(c, file.cfg), err |-> ""]

\* loadConfig that returns what was merged so far together with the error
loadConfigPartial(g, p) ==
    IF g.state = "nopath" THEN [cfg |-> defaultConfig, err |-> "home"]
    ELSE LET r1 == mergeConfigFile(g, defaultConfig)
         IN  IF r1.err # "" THEN [cfg |-> r1.cfg, err |-> r1.err]
             ELSE mergeConfigFile(p, r1.cfg)

loadConfig(g, p) ==
    IF g.state = "nopath" THEN [cfg |-> ZeroConfig, err |-> "home"]
    ELSE LET r1 == mergeConfigFile(g, defaultConfig)
         IN  IF r1.err # "" THEN [cfg |-> ZeroConfig, err |-> r1.err]
             ELSE LET r2 == mergeConfigFile(p, r1.cfg)
                  IN  IF r2.err # "" THEN [cfg |-> ZeroConfig, err |-> r2.err]
                      ELSE [cfg |-> r2.cfg, err |-> ""]

----------------------------------------------------------------------------
(* the command line *)

\* The values of the flag set after fs.Parse: one field per flag, the zero
\* value when the flag is absent; Invalid when fs.Parse fails.
NoFlags ==
    [Runtime |-> "", Image |-> "", Mounts |-> <<>>, Env |-> <<>>,
     SSHAgent |-> FALSE, ReadonlyProject |-> FALSE, NoNetwork |-> FALSE,
     Network |-> "", NoYolo |-> FALSE, Scratch |-> FALSE,
     ClaudeConfig |-> FALSE, GitConfig |-> FALSE, GhToken |-> FALSE,
     CopyAgentInstructions |-> FALSE, Setup |-> FALSE, Invalid |-> FALSE]

\* the flag values written over the loaded Config, with --mount and --env
\* replacing the lists of the config files
applyFlagsReplace(c, f) ==
    [Runtime |-> IF f.Runtime # "" THEN f.Runtime ELSE c.Runtime,
     Image |-> IF f.Image # "" THEN f.Image ELSE c.Image,
     Mounts |-> IF Len(f.Mounts) > 0 THEN f.Mounts ELSE c.Mounts,
     Env |-> IF Len(f.Env) > 0 THEN f.Env ELSE c.Env,
     SSHAgent |-> IF f.SSHAgent THEN TRUE ELSE c.SSHAgent,
     ReadonlyProject |-> IF f.ReadonlyProject THEN TRUE ELSE c.ReadonlyProject,
     NoNetwork |-> IF f.NoNetwork THEN TRUE ELSE c.NoNetwork,
     Network |-> IF f.Network # "" THEN f.Network ELSE c.Network,
     NoYolo |-> IF f.NoYolo THEN TRUE ELSE c.NoYolo,
     Scratch |-> IF f.Scratch THEN TRUE ELSE c.Scratch,
     ClaudeConfig |-> IF f.ClaudeConfig THEN TRUE ELSE c.ClaudeConfig,
     GitConfig |-> IF f.GitConfig THEN TRUE ELSE c.GitConfig,
     GhToken |-> IF f.GhToken THEN TRUE ELSE c.GhToken,
     CopyAgentInstructions |->
         IF f.CopyAgentInstructions THEN TRUE ELSE c.CopyAgentInstructions,
     Setup |-> IF f.Setup THEN TRUE ELSE c.Setup]

\* the flag values written over the loaded Config only where the Config is
\* still empty (the config files win over the command line)
applyFlagsWeak(c, f) ==
    [Runtime |-> IF c.Runtime = "" THEN f.Runtime ELSE c.Runtime,
     Image |-> IF c.Image = defaultConfig.Image /\ f.Image # "" THEN f.Image ELSE c.Image,
     Mounts |-> IF Len(f.Mounts) > 0 THEN c.Mounts \o f.Mounts ELSE c.Mounts,
     Env |-> IF Len(f.Env) > 0 THEN c.Env \o f.Env ELSE c.Env,
     SSHAgent |-> IF f.SSHAgent THEN TRUE ELSE c.SSHAgent,
     ReadonlyProject |-> IF f.ReadonlyProject THEN TRUE ELSE c.ReadonlyProject,
     NoNetwork |-> IF f.NoNetwork THEN TRUE ELSE c.NoNetwork,
     Network |-> IF c.Network = "" THEN f.Network ELSE c.Network,
     NoYolo |-> IF f.NoYolo THEN TRUE ELSE c.NoYolo,
     Scratch |-> IF f.Scratch THEN TRUE ELSE c.Scratch,
     ClaudeConfig |-> IF f.ClaudeConfig THEN TRUE ELSE c.ClaudeConfig,
     GitConfig |-> IF f.GitConfig THEN TRUE ELSE c.GitConfig,
     GhToken |-> IF f.GhToken THEN TRUE ELSE c.GhToken,
     CopyAgentInstructions |->
         IF f.CopyAgentInstructions THEN TRUE ELSE c.CopyAgentInstructions,
     Setup |-> IF f.Setup THEN TRUE ELSE c.Setup]

\* parseBaseFlags, after fs.Parse: the flag values written over the Config
applyFlags(c, f) ==
    [Runtime |-> IF f.Runtime # "" THEN f.Runtime ELSE c.Runtime,
     Image |-> IF f.Image # "" THEN f.Image ELSE c.Image,
     Mounts |-> IF Len(f.Mounts) > 0 THEN c.Mounts \o f.Mounts ELSE c.Mounts,
     Env |-> IF Len(f.Env) > 0 THEN c.Env \o f.Env ELSE c.Env,
     SSHAgent |-> IF f.SSHAgent THEN TRUE ELSE c.SSHAgent,
     ReadonlyProject |-> IF f.ReadonlyProject THEN TRUE ELSE c.ReadonlyProject,
     NoNetwork |-> IF f.NoNetwork THEN TRUE ELSE c.NoNetwork,
     Network |-> IF f.Network # "" THEN f.Network ELSE c.Network,
     NoYolo |-> IF f.NoYolo THEN TRUE ELSE c.NoYolo,
     Scratch |-> IF f.Scratch THEN TRUE ELSE c.Scratch,
     ClaudeConfig |-> IF f.ClaudeConfig THEN TRUE ELSE c.ClaudeConfig,
     GitConfig |-> IF f.GitConfig THEN TRUE ELSE c.GitConfig,
     GhToken |-> IF f.GhToken THEN TRUE ELSE c.GhToken,
     CopyAgentInstructions |->
         IF f.CopyAgentInstructions THEN TRUE ELSE c.CopyAgentInstructions,
     Setup |-> IF f.Setup THEN TRUE ELSE c.Setup]

\* parseBaseFlags, the validation of conflicting options
networkConflict(c) == c.Network # "" /\ c.NoNetwork

\* parseBaseFlags(name, args, projectDir), given the Config loadConfig returned
\* without error: the Config and the error it returns
parseBaseFlags(loaded, f) ==
    IF f.Invalid THEN [cfg |-> ZeroConfig, err |-> "flag"]
    ELSE LET c == applyFlags(loaded, f)
         IN  IF networkConflict(c)
             THEN [cfg |-> c, err |-> "cannot use --network with --no-network"]
             ELSE [cfg |-> c, err |-> ""]

----------------------------------------------------------------------------
(* the host *)

\* os.UserHomeDir() and os.Getwd() of the modelled runs
Home == "/home/u"

ProjectDir == "/work/proj"

autoPassthroughEnvVars ==
    <<"ANTHROPIC_API_KEY", "OPENAI_API_KEY", "COPILOT_GITHUB_TOKEN",
      "GITHUB_TOKEN", "GH_TOKEN", "OPENROUTER_API_KEY", "GEMINI_API_KEY">>

Range(f) == {f[i] : i \in DOMAIN f}

EnvNames == Range(autoPassthroughEnvVars) \cup {"TERM", "LANG", "SSH_AUTH_SOCK"}

\* the host files and directories buildRunArgs looks at
claudeConfigDir == Join(Home, ".claude")
claudeConfigFile == Join(Home, ".claude.json")
gitConfigFile == Join(Home, ".gitconfig")
claudeMd == Join(Join(Home, ".claude"), "CLAUDE.md")
geminiMd == Join(Join(Home, ".gemini"), "GEMINI.md")
codexMd == Join(Join(Home, ".codex"), "AGENTS.md")
copilotAgents == Join(Join(Home, ".copilot"), "agents")
credsPath == Join(Join(Join(Home, ".yolobox"), "tmp"), "claude-credentials.json")

HostPaths == {claudeConfigDir, claudeConfigFile, gitConfigFile, claudeMd,
              geminiMd, codexMd, copilotAgents}

\* What os.Stat and os.ReadFile find at a path: "file" and "dir" exist,
\* "locked" exists but cannot be read, "notfound" is the not-exist error,
\* "error" any other stat failure.
StatOk(h, path) == h.stat[path] \in {"file", "dir", "locked"}

\* exec.LookPath
LookPath(h, name) ==
    IF name \in h.installed THEN [path |-> "/usr/bin/" \o name, err |-> ""]
    ELSE [path |-> "", err |-> "not found"]

\* resolveRuntime that probes podman before docker
resolveRuntimePodmanFirst(h, name) ==
    IF name = "" THEN
        IF LookPath(h, "podman").err = "" THEN LookPath(h, "podman")
        ELSE IF LookPath(h, "docker").err = "" THEN LookPath(h, "docker")
        ELSE IF LookPath(h, "container").err = "" THEN LookPath(h, "container")
        ELSE [path |-> "", err |-> "no container runtime found"]
    ELSE LET n == IF name = "colima" THEN "docker" ELSE name
             r == LookPath(h, n)
         IN  IF r.err # "" THEN [path |-> "", err |-> "runtime " \o n \o " not found in PATH"]
             ELSE r

resolveRuntime(h, name) ==
    IF name = "" THEN
        IF LookPath(h, "docker").err = "" THEN LookPath(h, "docker")
        ELSE IF LookPath(h, "podman").err = "" THEN LookPath(h, "podman")
        ELSE IF LookPath(h, "container").err = "" THEN LookPath(h, "container")
        ELSE [path |-> "", err |-> "no container runtime found"]
    ELSE LET n == IF name = "colima" THEN "docker" ELSE name
             r == LookPath(h, n)
         IN  IF r.err # "" THEN [path |-> "", err |-> "runtime " \o n \o " not found in PATH"]
             ELSE r

isAppleContainer(h, runtime) ==
    LET r == resolveRuntime(h, runtime)
    IN  IF r.err # "" THEN FALSE ELSE HasSuffix(r.path, "/container")
\* resolvePath with "~/rest" taken below the project directory
resolvePathTildeInProject(h, path, projectDir) ==
    IF path = "" THEN [path |-> "", err |-> "empty path"]
    ELSE IF HasPrefix(path, "~") /\ ~h.homeOk THEN [path |-> "", err |-> "home"]
    ELSE LET p1 == IF path = "~" THEN Home
                   ELSE IF HasPrefix(path, "~/")
                        THEN Join(projectDir, SubSeq(path, 3, Len(path)))
                        ELSE path
         IN  IF HasPrefix(p1, ".") \/ HasPrefix(p1, "/")
             THEN [path |-> Clean(IF IsAbs(p1) THEN p1 ELSE Join(projectDir, p1)),
                   err |-> ""]
             ELSE [path |-> p1, err |-> ""]
\* resolvePath that puts every dotted or absolute path below the project
\* directory, absolute ones too
resolvePathRebase(h, path, projectDir) ==
    IF path = "" THEN [path |-> "", err |-> "empty path"]
    ELSE IF HasPrefix(path, "~") /\ ~h.homeOk THEN [path |-> "", err |-> "home"]
    ELSE LET p1 == IF path = "~" THEN Home
                   ELSE IF HasPrefix(path, "~/")
                        THEN Join(Home, SubSeq(path, 3, Len(path)))
                        ELSE path
         IN  IF HasPrefix(p1, ".") \/ HasPrefix(p1, "/")
             THEN [path |-> Join(projectDir, p1), err |-> ""]
             ELSE [path |-> p1, err |-> ""]

resolvePath(h, path, projectDir) ==
    IF path = "" THEN [path |-> "", err |-> "empty path"]
    ELSE IF HasPrefix(path, "~") /\ ~h.homeOk THEN [path |-> "", err |-> "home"]
    ELSE LET p1 == IF path = "~" THEN Home
                   ELSE IF HasPrefix(path, "~/")
                        THEN Join(Home, SubSeq(path, 3, Len(path)))
                        ELSE path
         IN  IF HasPrefix(p1, ".") \/ HasPrefix(p1, "/")
             THEN [path |-> Clean(IF IsAbs(p1) THEN p1 ELSE Join(projectDir, p1)),
                   err |-> ""]
             ELSE [path |-> p1, err |-> ""]
\* resolveMount that drops the options
resolveMountNoOpts(h, mount, projectDir) ==
    LET parts == SplitN(mount, ":", 3)
    IN  IF Len(parts) < 2 THEN [mount |-> "", err |-> "invalid mount"]
        ELSE LET r == resolvePath(h, parts[1], projectDir)
             IN  IF r.err # "" THEN [mount |-> "", err |-> r.err]
                 ELSE [mount |-> r.path \o ":" \o parts[2], err |-> ""]

resolveMount(h, mount, projectDir) ==
    LET parts == SplitN(mount, ":", 3)
    IN  IF Len(parts) < 2 THEN [mount |-> "", err |-> "invalid mount"]
        ELSE LET src == parts[1]
                 dst == parts[2]
                 opts == IF Len(parts) = 3 THEN parts[3] ELSE ""
                 r == resolvePath(h, src, projectDir)
             IN  IF r.err # "" THEN [mount |-> "", err |-> r.err]
                 ELSE IF opts # ""
                      THEN [mount |-> r.path \o ":" \o dst \o ":" \o opts, err |-> ""]
                      ELSE [mount |-> r.path \o ":" \o dst, err |-> ""]

\* getGhToken, getClaudeCredentials: what the helper processes print
getGhToken(h) == h.ghToken

getClaudeCredentials(h) == h.creds

----------------------------------------------------------------------------
(* buildRunArgs *)

\* filepath.Abs of the project directory (the working directory is ProjectDir)
Abs(dir) == IF IsAbs(dir) THEN Clean(dir) ELSE Join(ProjectDir, dir)

\* The builder's running state: the arguments so far, the files collected for
\* the staging directory (appleContainerFiles, source -> name), the error that
\* ended the build, the host paths the build has created, and the names that
\* were copied into the staging directory.
BuildStart ==
    [args |-> <<>>, files |-> {}, err |-> "", created |-> {}, staged |-> {}]

Emit(st, more) == [st EXCEPT !.args = st.args \o more]
\* an error return that keeps the arguments built so far
FailKeepArgs(st, e) == [st EXCEPT !.err = e]

Fail(st, e) == [st EXCEPT !.args = <<>>, !.err = e]

\* run --rm, -it, -w, the marker variables, NO_YOLO, TERM, LANG
baseStep(st, c, h, absProject, inter) ==
    Emit(st,
        <<"run", "--rm">>
        \o (IF inter \/ h.tty THEN <<"-it">> ELSE <<>>)
        \o <<"-w", absProject>>
        \o <<"-e", "YOLOBOX=1">>
        \o <<"-e", "YOLOBOX_PROJECT_PATH=" \o absProject>>
        \o (IF c.NoYolo THEN <<"-e", "NO_YOLO=1">> ELSE <<>>)
        \o (IF h.env["TERM"] # "" THEN <<"-e", "TERM=" \o h.env["TERM"]>> ELSE <<>>)
        \o (IF h.env["LANG"] # "" THEN <<"-e", "LANG=" \o h.env["LANG"]>> ELSE <<>>))

RECURSIVE passthroughArgs(_, _)
passthroughArgs(h, keys) ==
    IF keys = <<>> THEN <<>>
    ELSE (IF h.env[Head(keys)] # ""
          THEN <<"-e", Head(keys) \o "=" \o h.env[Head(keys)]>>
          ELSE <<>>)
         \o passthroughArgs(h, Tail(keys))
\* the allow-list walked from its end
passthroughStepReversed(st, h) ==
    Emit(st, passthroughArgs(h, [i \in 1..Len(autoPassthroughEnvVars) |->
                 autoPassthroughEnvVars[Len(autoPassthroughEnvVars) + 1 - i]]))

passthroughStep(st, h) == Emit(st, passthroughArgs(h, autoPassthroughEnvVars))

ghTokenStep(st, c, h) ==
    IF c.GhToken /\ getGhToken(h) # ""
    THEN Emit(st, <<"-e", "GH_TOKEN=" \o getGhToken(h)>>)
    ELSE st

RECURSIVE envArgs(_)
envArgs(env) ==
    IF env = <<>> THEN <<>> ELSE <<"-e", Head(env)>> \o envArgs(Tail(env))

userEnvStep(st, c) == Emit(st, envArgs(c.Env))

\* the project mount with the named output volume emitted in scratch mode too
projectMountStepNamed(st, c, absProject) ==
    Emit(st,
        (IF c.ReadonlyProject THEN <<"-v", "yolobox-output:/output">> ELSE <<>>)
        \o <<"-v", absProject \o ":" \o absProject
                   \o (IF c.ReadonlyProject THEN ":ro" ELSE "")>>)

projectMountStep(st, c, absProject) ==
    Emit(st,
        (IF c.ReadonlyProject
         THEN (IF c.Scratch THEN <<"-v", "/output">>
               ELSE <<"-v", "yolobox-output:/output">>)
         ELSE <<>>)
        \o <<"-v", absProject \o ":" \o absProject
                   \o (IF c.ReadonlyProject THEN ":ro" ELSE "")>>)

\* the named volumes emitted whether or not scratch is set
volumesStepAlways(st, c) ==
    Emit(st, <<"-v", "yolobox-home:/home/yolo", "-v", "yolobox-cache:/var/cache">>)
\* the persistence step with the cache volume left out
volumesStepHomeOnly(st, c) ==
    IF ~c.Scratch THEN Emit(st, <<"-v", "yolobox-home:/home/yolo">>) ELSE st

volumesStep(st, c) ==
    IF ~c.Scratch
    THEN Emit(st, <<"-v", "yolobox-home:/home/yolo", "-v", "yolobox-cache:/var/cache">>)
    ELSE st

\* one host file: a read-only file mount, or an entry of appleContainerFiles
fileMount(st, h, apple, f) ==
    IF ~StatOk(h, f.path) THEN st
    ELSE IF apple THEN [st EXCEPT !.files = st.files \cup {<<f.path, f.name>>}]
    ELSE Emit(st, <<"-v", f.path \o ":" \o f.dest \o ":ro">>)

RECURSIVE fileMounts(_, _, _, _)
fileMounts(st, h, apple, fs) ==
    IF fs = <<>> THEN st
    ELSE fileMounts(fileMount(st, h, apple, Head(fs)), h, apple, Tail(fs))

HostFile(path, dest, name) == [path |-> path, dest |-> dest, name |-> name]

\* the credentials file written under ~/.yolobox/tmp and its mount
credentialsMount(st, h, apple) ==
    IF getClaudeCredentials(h) = "" \/ ~h.credsWriteOk THEN st
    ELSE IF apple
    THEN [st EXCEPT !.created = st.created \cup {credsPath},
                    !.files = st.files \cup {<<credsPath, "claude/.credentials.json">>}]
    ELSE [st EXCEPT !.created = st.created \cup {credsPath},
                    !.args = st.args \o <<"-v", credsPath \o ":/host-claude/.credentials.json:ro">>]

claudeConfigStep(st, c, h, apple) ==
    IF st.err # "" \/ ~c.ClaudeConfig THEN st
    ELSE IF ~h.homeOk THEN Fail(st, "home")
    ELSE credentialsMount(
             fileMounts(
                 Emit(st, IF StatOk(h, claudeConfigDir)
                          THEN <<"-v", claudeConfigDir \o ":/host-claude/.claude:ro">>
                          ELSE <<>>),
                 h, apple,
                 <<HostFile(claudeConfigFile, "/host-claude/.claude.json",
                            "claude/.claude.json")>>),
             h, apple)
\* the git config mounted whether or not git_config is set
gitConfigStepAlways(st, c, h, apple) ==
    IF st.err # "" THEN st
    ELSE IF ~h.homeOk THEN Fail(st, "home")
    ELSE fileMounts(st, h, apple,
             <<HostFile(gitConfigFile, "/host-git/.gitconfig", "git/.gitconfig")>>)

gitConfigStep(st, c, h, apple) ==
    IF st.err # "" \/ ~c.GitConfig THEN st
    ELSE IF ~h.homeOk THEN Fail(st, "home")
    ELSE fileMounts(st, h, apple,
             <<HostFile(gitConfigFile, "/host-git/.gitconfig", "git/.gitconfig")>>)

agentInstructionsStep(st, c, h, apple) ==
    IF st.err # "" \/ ~c.CopyAgentInstructions THEN st
    ELSE IF ~h.homeOk THEN Fail(st, "home")
    ELSE Emit(fileMounts(st, h, apple,
                  <<HostFile(claudeMd, "/host-agent-instructions/claude/CLAUDE.md",
                             "agent-instructions/claude/CLAUDE.md"),
                    HostFile(geminiMd, "/host-agent-instructions/gemini/GEMINI.md",
                             "agent-instructions/gemini/GEMINI.md"),
                    HostFile(codexMd, "/host-agent-instructions/codex/AGENTS.md",
                             "agent-instructions/codex/AGENTS.md")>>),
              IF h.stat[copilotAgents] = "dir"
              THEN <<"-v", copilotAgents \o ":/host-agent-instructions/copilot/agents:ro">>
              ELSE <<>>)

\* os.ReadFile of a collected file: the credentials file was just written by
\* the build itself, the others are read as the host allows
Readable(h, path) == path = credsPath \/ h.stat[path] = "file"

\* prepareFileMountDir: the directory it created and the names copied into it
prepareFileMountDir(h, files) ==
    IF ~h.mktempOk THEN [dir |-> "", err |-> "failed to create temp dir for file mounts", copied |-> {}]
    ELSE [dir |-> h.tmpDir, err |-> "",
          copied |-> {f[2] : f \in {g \in files : Readable(h, g[1])}}]
\* the staging step with the directory's name repeated in the environment
stagingStepNamedEnv(st, h, apple) ==
    IF st.err # "" \/ ~(apple /\ st.files # {}) THEN st
    ELSE LET r == prepareFileMountDir(h, st.files)
         IN  IF r.err # "" THEN Fail(st, r.err)
             ELSE [Emit(st, <<"-v", r.dir \o ":/host-files:ro",
                              "-e", "YOLOBOX_HOST_FILES=" \o r.dir>>)
                   EXCEPT !.created = st.created \cup {r.dir}, !.staged = r.copied]

stagingStep(st, h, apple) ==
    IF st.err # "" \/ ~(apple /\ st.files # {}) THEN st
    ELSE LET r == prepareFileMountDir(h, st.files)
         IN  IF r.err # "" THEN Fail(st, r.err)
             ELSE [Emit(st, <<"-v", r.dir \o ":/host-files:ro",
                              "-e", "YOLOBOX_HOST_FILES=/host-files">>)
                   EXCEPT !.created = st.created \cup {r.dir}, !.staged = r.copied]

RECURSIVE extraMounts(_, _, _, _)
extraMounts(st, h, mounts, absProject) ==
    IF st.err # "" \/ mounts = <<>> THEN st
    ELSE LET r == resolveMount(h, Head(mounts), absProject)
         IN  IF r.err # "" THEN Fail(st, r.err)
             ELSE extraMounts(Emit(st, <<"-v", r.mount>>), h, Tail(mounts), absProject)

sshAgentStep(st, c, h, apple) ==
    IF st.err # "" \/ ~c.SSHAgent THEN st
    ELSE IF apple THEN Emit(st, <<"--ssh">>)
    ELSE IF h.env["SSH_AUTH_SOCK"] = "" THEN st
    ELSE Emit(st, <<"-v", h.env["SSH_AUTH_SOCK"] \o ":/ssh-agent",
                    "-e", "SSH_AUTH_SOCK=/ssh-agent">>)

\* the network step with two independent tests
networkStepBoth(st, c) ==
    IF st.err # "" THEN st
    ELSE Emit(st, (IF c.NoNetwork THEN <<"--network", "none">> ELSE <<>>)
                  \o (IF c.Network # "" THEN <<"--network", c.Network>> ELSE <<>>))

networkStep(st, c) ==
    IF st.err # "" THEN st
    ELSE IF c.NoNetwork THEN Emit(st, <<"--network", "none">>)
    ELSE IF c.Network # "" THEN Emit(st, <<"--network", c.Network>>)
    ELSE st
\* the command emitted before the image
imageStepCommandFirst(st, c, cmd) ==
    IF st.err # "" THEN st ELSE Emit(st, cmd \o <<c.Image>>)

imageStep(st, c, cmd) ==
    IF st.err # "" THEN st ELSE Emit(st, <<c.Image>> \o cmd)

\* the steps of buildRunArgs, in the order of the code
BuildSteps ==
    <<"base", "passthrough", "ghToken", "userEnv", "projectMount", "volumes",
      "claudeConfig", "gitConfig", "agentInstructions", "staging", "extraMounts",
      "sshAgent", "network", "image">>

buildStep(name, st, c, absProject, cmd, inter, h, apple) ==
    CASE name = "base" -> baseStep(st, c, h, absProject, inter)
      [] name = "passthrough" -> passthroughStep(st, h)
      [] name = "ghToken" -> ghTokenStep(st, c, h)
      [] name = "userEnv" -> userEnvStep(st, c)
      [] name = "projectMount" -> projectMountStep(st, c, absProject)
      [] name = "volumes" -> volumesStep(st, c)
      [] name = "claudeConfig" -> claudeConfigStep(st, c, h, apple)
      [] name = "gitConfig" -> gitConfigStep(st, c, h, apple)
      [] name = "agentInstructions" -> agentInstructionsStep(st, c, h, apple)
      [] name = "staging" -> stagingStep(st, h, apple)
      [] name = "extraMounts" -> extraMounts(st, h, c.Mounts, absProject)
      [] name = "sshAgent" -> sshAgentStep(st, c, h, apple)
      [] name = "network" -> networkStep(st, c)
      [] name = "image" -> imageStep(st, c, cmd)

RECURSIVE buildFrom(_, _, _, _, _, _, _, _)
buildFrom(names, st, c, absProject, cmd, inter, h, apple) ==
    IF names = <<>> THEN st
    ELSE buildFrom(Tail(names),
                   buildStep(Head(names), st, c, absProject, cmd, inter, h, apple),
                   c, absProject, cmd, inter, h, apple)

buildRunArgs(c, projectDir, cmd, inter, h) ==
    buildFrom(BuildSteps, BuildStart, c, Abs(projectDir), cmd, inter, h,
              isAppleContainer(h, c.Runtime))

----------------------------------------------------------------------------
(* the setup wizard *)

WizardOptions == {"git_config", "gh_token", "ssh_agent", "no_network", "no_yolo"}

\* globalConfigExists: the path is known and stat succeeds
globalConfigExists(g) == g.state \in {"ok", "malformed"}

\* what the TOML written by saveGlobalConfig decodes to: the six keys it
\* writes, every other key absent
savedConfig(c) ==
    [ZeroConfig EXCEPT !.GitConfig = c.GitConfig, !.GhToken = c.GhToken,
                       !.SSHAgent = c.SSHAgent, !.NoNetwork = c.NoNetwork,
                       !.Network = c.Network, !.NoYolo = c.NoYolo]

\* saveGlobalConfig: the global file afterwards and the error
saveGlobalConfig(g, c, writeOk) ==
    IF g.state = "nopath" THEN [file |-> g, err |-> "home"]
    ELSE IF ~writeOk THEN [file |-> g, err |-> "failed to write config"]
    ELSE [file |-> File(savedConfig(c)), err |-> ""]

\* runSetup: the Config and error it returns, and the global file afterwards.
\* w is what the form and the file system did: outcome "aborted", "error" or
\* "submitted", the options selected on submit, and whether the write worked.
runSetup(g, p, w) ==
    LET existing == IF globalConfigExists(g) /\ loadConfig(g, p).err = ""
                    THEN loadConfig(g, p).cfg
                    ELSE ZeroConfig
        chosen == [existing EXCEPT
                      !.GitConfig = "git_config" \in w.selected,
                      !.GhToken = "gh_token" \in w.selected,
                      !.SSHAgent = "ssh_agent" \in w.selected,
                      !.NoNetwork = "no_network" \in w.selected,
                      !.NoYolo = "no_yolo" \in w.selected]
        saved == saveGlobalConfig(g, chosen, w.writeOk)
    IN  IF w.outcome = "aborted"
        THEN [cfg |-> ZeroConfig, err |-> "setup cancelled", file |-> g]
        ELSE IF w.outcome = "error"
        THEN [cfg |-> ZeroConfig, err |-> "form", file |-> g]
        ELSE [cfg |-> chosen, err |-> saved.err, file |-> saved.file]

\* runShell, the merge of the setup result into the Config of the command line
mergeSetup(c, n) ==
    [c EXCEPT !.GitConfig = IF ~c.GitConfig THEN n.GitConfig ELSE c.GitConfig,
              !.GhToken = IF ~c.GhToken THEN n.GhToken ELSE c.GhToken,
              !.SSHAgent = IF ~c.SSHAgent THEN n.SSHAgent ELSE c.SSHAgent,
              !.NoNetwork = IF ~c.NoNetwork THEN n.NoNetwork ELSE c.NoNetwork,
              !.NoYolo = IF ~c.NoYolo THEN n.NoYolo ELSE c.NoYolo]

NoWizard == [outcome |-> "none", selected |-> {}, writeOk |-> TRUE]

----------------------------------------------------------------------------
(* the inputs of the modelled runs *)

\* the longest mounts/env list one configuration layer defines
MaxList == 2

SeqsUpTo(S, n) == UNION {[1..k -> S] : k \in 0..n}

Lists(S) == SeqsUpTo(S, MaxList) \ {<<>>}

Single(f, v) == [ZeroConfig EXCEPT ![f] = v]

GlobalMounts == {"~/data:/data", "./link:/mnt"}

ProjectMounts == {"./src:/app/src", "./link:/mnt"}

CliMounts == {"vol-c:/c", "nocolon"}

\* a layer that sets one field, or the two network fields together
GlobalConfigs ==
    {ZeroConfig}
    \cup {Single(f, TRUE) : f \in BoolFields}
    \cup {Single("Runtime", "podman"), Single("Image", "img-g"),
          Single("Network", "net-g"),
          [ZeroConfig EXCEPT !.Network = "net-g", !.NoNetwork = TRUE]}
    \cup {Single("Mounts", m) : m \in Lists(GlobalMounts)}
    \cup {Single("Env", e) : e \in Lists({"G=1"})}

ProjectConfigs ==
    {ZeroConfig}
    \cup {Single(f, TRUE) : f \in BoolFields}
    \cup {Single("Runtime", "container"), Single("Image", "img-p"),
          Single("Image", "--privileged"), Single("Network", "net-p")}
    \cup {Single("Mounts", m) : m \in Lists(ProjectMounts)}
    \cup {Single("Env", e) : e \in Lists({"DEBUG=1"})}

GlobalFiles ==
    {NoFile("missing"), NoFile("unreadable"), NoFile("malformed"), NoFile("nopath")}
    \cup {File(c) : c \in GlobalConfigs}

ProjectFiles ==
    {NoFile("missing"), NoFile("unreadable"), NoFile("malformed")}
    \cup {File(c) : c \in ProjectConfigs}

FlagOf(f, v) == [NoFlags EXCEPT ![f] = v]

CliFlags ==
    {NoFlags, FlagOf("Invalid", TRUE), FlagOf("Setup", TRUE)}
    \cup {FlagOf(f, TRUE) : f \in BoolFields}
    \cup {FlagOf("Runtime", "docker"), FlagOf("Image", "img-c"),
          FlagOf("Network", "net-c"),
          [NoFlags EXCEPT !.Network = "net-c", !.NoNetwork = TRUE],
          [NoFlags EXCEPT !.Network = "net-c", !.Setup = TRUE],
          [NoFlags EXCEPT !.NoNetwork = TRUE, !.Setup = TRUE]}
    \cup {FlagOf("Mounts", m) : m \in Lists(CliMounts)}
    \cup {FlagOf("Env", e) : e \in Lists({"C=1"})}

Wizards ==
    {[outcome |-> "aborted", selected |-> {}, writeOk |-> TRUE],
     [outcome |-> "error", selected |-> {}, writeOk |-> TRUE],
     [outcome |-> "submitted", selected |-> {"no_network"}, writeOk |-> FALSE]}
    \cup {[outcome |-> "submitted", selected |-> sel, writeOk |-> TRUE] :
              sel \in {{}, WizardOptions} \cup {{o} : o \in WizardOptions}}

\* the commands of "yolobox run": none, two words
RunCommands == {<<>>, <<"make", "test">>}

NoEnv == [n \in EnvNames |-> ""]

NoFiles == [q \in HostPaths |-> "notfound"]

\* a host with docker, no terminal, an empty environment and none of the files
BaseHost ==
    [installed |-> {"docker"}, tty |-> FALSE, env |-> NoEnv, ghToken |-> "",
     homeOk |-> TRUE, stat |-> NoFiles, creds |-> "", credsWriteOk |-> TRUE,
     mktempOk |-> TRUE, tmpDir |-> "/tmp/yolobox-mounts-1"]

AllFiles ==
    [q \in HostPaths |-> IF q \in {claudeConfigDir, copilotAgents} THEN "dir" ELSE "file"]

FullEnv ==
    [n \in EnvNames |->
        IF n = "TERM" THEN "xterm"
        ELSE IF n = "LANG" THEN "C.UTF-8"
        ELSE IF n = "SSH_AUTH_SOCK" THEN "/run/ssh.sock"
        ELSE IF n \in {"ANTHROPIC_API_KEY", "GH_TOKEN", "GEMINI_API_KEY"} THEN "k-" \o n
        ELSE ""]

\* a host with Apple's container tool only, every file present, a terminal
AppleHost ==
    [BaseHost EXCEPT !.installed = {"container"}, !.tty = TRUE, !.env = FullEnv,
                     !.ghToken = "gho_1", !.stat = AllFiles, !.creds = "oauth",
                     !.tmpDir = "/tmp/yolobox-mounts-2"]

PipelineHosts == {BaseHost, AppleHost}

----------------------------------------------------------------------------
(* one run of the command: runCmd *)

NoCall == [op |-> "none"]

Idle ==
    /\ pc = "start"
    /\ sub = ""
    /\ flags = NoFlags
    /\ cfg = ZeroConfig
    /\ err = ""
    /\ wizard = NoWizard
    /\ command = <<>>
    /\ interactive = FALSE
    /\ host = BaseHost
    /\ args = <<>>
    /\ staging = {}

Init ==
    /\ globalFile \in GlobalFiles
    /\ projectFile \in ProjectFiles
    /\ Idle
    /\ call = NoCall

\* parseBaseFlags, its first statement: loadConfig(projectDir); the shell
\* entry ("yolobox [flags]") and "yolobox run" both begin with it
LoadConfig ==
    /\ pc = "start"
    /\ LET r == loadConfig(globalFile, projectFile)
       IN  /\ cfg' = r.cfg
           /\ err' = r.err
           /\ pc' = IF r.err = "" THEN "loaded" ELSE "failed"
    /\ UNCHANGED <<globalFile, projectFile, sub, flags, wizard, command,
                   interactive, host, args, staging, call>>

\* parseBaseFlags, the rest: the flags are parsed, written over the Config
\* and validated
ParseFlags ==
    /\ pc = "loaded"
    /\ \E f \in CliFlags :
          LET r == parseBaseFlags(cfg, f)
          IN  /\ flags' = f
              /\ cfg' = r.cfg
              /\ err' = r.err
              /\ pc' = IF r.err = "" THEN "parsed" ELSE "failed"
    /\ UNCHANGED <<globalFile, projectFile, sub, wizard, command, interactive,
                   host, args, staging, call>>

\* runShell up to its call of runCommand
RunShell ==
    /\ pc = "parsed"
    /\ sub' = "shell"
    /\ IF cfg.Setup
       THEN \E w \in Wizards :
               LET r == runSetup(globalFile, projectFile, w)
               IN  /\ wizard' = w
                   /\ globalFile' = r.file
                   /\ IF r.err = "setup cancelled"
                      THEN cfg' = cfg /\ err' = "" /\ pc' = "ready"
                      ELSE IF r.err # ""
                      THEN cfg' = cfg /\ err' = r.err /\ pc' = "failed"
                      ELSE cfg' = mergeSetup(cfg, r.cfg) /\ err' = "" /\ pc' = "ready"
       ELSE UNCHANGED <<wizard, globalFile, cfg, err>> /\ pc' = "ready"
    /\ command' = <<"bash">>
    /\ interactive' = TRUE
    /\ UNCHANGED <<projectFile, flags, host, args, staging, call>>

\* runCmd, case "run": the words after the flags are the command
RunRun ==
    /\ pc = "parsed"
    /\ sub' = "run"
    /\ \E rest \in RunCommands :
          /\ command' = rest
          /\ IF Len(rest) = 0
             THEN err' = "run requires a command" /\ pc' = "failed"
             ELSE err' = "" /\ pc' = "ready"
    /\ interactive' = FALSE
    /\ UNCHANGED <<globalFile, projectFile, flags, cfg, wizard, host, args,
                   staging, call>>

\* runCmd, case "setup"
SetupCmd ==
    /\ pc = "start"
    /\ sub' = "setup"
    /\ \E w \in Wizards :
          LET r == runSetup(globalFile, projectFile, w)
          IN  /\ wizard' = w
              /\ globalFile' = r.file
              /\ cfg' = r.cfg
              /\ err' = r.err
              /\ pc' = IF r.err = "" THEN "done" ELSE "failed"
    /\ UNCHANGED <<projectFile, flags, command, interactive, host, args, staging, call>>

\* runCommand on a host h: buildRunArgs, then execRuntime
RunCommandOn(h) ==
    /\ pc = "ready"
    /\ \E r \in {buildRunArgs(cfg, ProjectDir, command, interactive, h)},
          x \in {resolveRuntime(h, cfg.Runtime)} :
           /\ host' = h
           /\ args' = r.args
           /\ staging' = r.created
           /\ IF r.err # "" THEN err' = r.err /\ pc' = "failed"
              ELSE IF x.err # "" THEN err' = x.err /\ pc' = "failed"
              ELSE err' = "" /\ pc' = "done"
    /\ UNCHANGED <<globalFile, projectFile, sub, flags, cfg, wizard, command,
                   interactive, call>>

RunCommand == \E h \in PipelineHosts : RunCommandOn(h)

Next ==
    \/ LoadConfig
    \/ ParseFlags
    \/ RunShell
    \/ RunRun
    \/ SetupCmd
    \/ RunCommand

Spec == Init /\ [][Next]_vars

----------------------------------------------------------------------------
(* buildRunArgs called on any Config, as the tests of the builder call it *)

AllFlagSets == [BoolFields -> BOOLEAN]

BuildConfigs ==
    {[Runtime |-> "", Image |-> "test-image", Mounts |-> m, Env |-> e,
      SSHAgent |-> b["SSHAgent"], ReadonlyProject |-> b["ReadonlyProject"],
      NoNetwork |-> b["NoNetwork"], Network |-> n, NoYolo |-> b["NoYolo"],
      Scratch |-> b["Scratch"], ClaudeConfig |-> b["ClaudeConfig"],
      GitConfig |-> b["GitConfig"], GhToken |-> b["GhToken"],
      CopyAgentInstructions |-> b["CopyAgentInstructions"], Setup |-> FALSE] :
        b \in AllFlagSets, n \in {"", "dev_network"},
        m \in {<<>>, <<"./src:/app/src", "vol:/data">>, <<"~/secrets:/secrets:ro", "no-colon">>},
        e \in {<<>>, <<"FOO=bar">>}}

\* docker, every host file present, the environment set
FilesHost ==
    [BaseHost EXCEPT !.env = FullEnv, !.ghToken = "gho_1", !.stat = AllFiles,
                     !.creds = "oauth"]

\* Apple's container tool, the home directory unknown or the temp dir refused
BrokenAppleHost ==
    [AppleHost EXCEPT !.mktempOk = FALSE,
                      !.stat = [AllFiles EXCEPT ![gitConfigFile] = "error",
                                                ![claudeMd] = "locked"]]

NoHomeHost == [BaseHost EXCEPT !.homeOk = FALSE, !.installed = {}]

\* docker, every host file present, ~/.gitconfig not readable by the user
LockedHost == [FilesHost EXCEPT !.stat = [AllFiles EXCEPT ![gitConfigFile] = "locked"]]

BuildHosts == {BaseHost, FilesHost, AppleHost, BrokenAppleHost, NoHomeHost, LockedHost}

InitBuild ==
    /\ globalFile = NoFile("missing")
    /\ projectFile = NoFile("missing")
    /\ pc = "ready"
    /\ sub = "run"
    /\ flags = NoFlags
    /\ cfg \in BuildConfigs
    /\ err = ""
    /\ wizard = NoWizard
    /\ command = <<"echo", "hi">>
    /\ interactive \in BOOLEAN
    /\ host = BaseHost
    /\ args = <<>>
    /\ staging = {}
    /\ call = NoCall

BuildCall == \E h \in BuildHosts : RunCommandOn(h)

SpecBuild == InitBuild /\ [][BuildCall]_vars

----------------------------------------------------------------------------
(* mergeConfig called on any two Configs *)

\* every field set
FullConfig ==
    [Runtime |-> "docker", Image |-> "old-image", Mounts |-> <<"a:/a">>,
     Env |-> <<"A=1">>, SSHAgent |-> TRUE, ReadonlyProject |-> TRUE,
     NoNetwork |-> TRUE, Network |-> "my_network", NoYolo |-> TRUE,
     Scratch |-> TRUE, ClaudeConfig |-> TRUE, GitConfig |-> TRUE,
     GhToken |-> TRUE, CopyAgentInstructions |-> TRUE, Setup |-> TRUE]

MergeConfigs ==
    GlobalConfigs \cup ProjectConfigs \cup {defaultConfig, FullConfig, Single("Setup", TRUE)}

InitMerge ==
    /\ globalFile = NoFile("missing")
    /\ projectFile = NoFile("missing")
    /\ Idle
    /\ \E d \in MergeConfigs, s \in MergeConfigs :
          call = [op |-> "mergeConfig", dst |-> d, src |-> s, done |-> FALSE, out |-> d]

\* mergeConfig(&dst, src): dst afterwards is call.out
CallMergeConfig ==
    /\ call.op = "mergeConfig"
    /\ ~call.done
    /\ call' = [call EXCEPT !.done = TRUE, !.out = mergeConfig(call.dst, call.src)]
    /\ UNCHANGED <<globalFile, projectFile, pc, sub, flags, cfg, err, wizard,
                   command, interactive, host, args, staging>>

SpecMerge == InitMerge /\ [][CallMergeConfig]_vars

----------------------------------------------------------------------------
(* what the claims speak of *)

\* runCommand is about to pass cfg to buildRunArgs
HandedToBuilder == pc = "ready"

ProjectOk == projectFile.state = "ok"

GlobalOk == globalFile.state = "ok"

\* the fields the project file is said never to set
ClearRestricted(c) ==
    [c EXCEPT !.Runtime = "", !.SSHAgent = FALSE, !.ClaudeConfig = FALSE,
              !.GitConfig = FALSE, !.GhToken = FALSE,
              !.CopyAgentInstructions = FALSE]

\* the host's symbolic links in the modelled runs: <project>/link -> /etc
SymlinkTarget(path) == IF path = Join(ProjectDir, "link") THEN "/etc" ELSE path

MountSource(m) == SplitN(m, ":", 2)[1]

Within(root, path) == path = root \/ HasPrefix(path, root \o "/")

\* the source of a mount is relative, free of "..", and resolves (following
\* symbolic links) to the project root or below it
SafeProjectSource(src) ==
    /\ ~IsAbs(src)
    /\ ~HasPrefix(src, "~")
    /\ ~HasPrefix(src, "$")
    /\ ".." \notin Range(SplitSlash(src))
    /\ Within(ProjectDir, SymlinkTarget(Join(ProjectDir, src)))

\* the arguments before the image, and the image token, of a built vector
FlagPart(a, cmd) == SubSeq(a, 1, Len(a) - Len(cmd) - 1)

ImageToken(a, cmd) == a[Len(a) - Len(cmd)]

Built == args # <<>>

----------------------------------------------------------------------------
(* C1 *)

\* C1: a Config with a network name and no_network both set is never passed
\* to buildRunArgs, whatever the config files, the flags and the wizard did.
C1_ConflictNeverReachesBuilder == HandedToBuilder => ~networkConflict(cfg)

(* C2 *)

\* C2: the merged Config of loadConfig and parseBaseFlags is the one obtained
\* from the project file with runtime and the credential-forwarding booleans
\* cleared, so two project files differing only there merge alike.
C2_ProjectCannotSetRestricted ==
    pc = "parsed" =>
        cfg = parseBaseFlags(
                  loadConfig(globalFile,
                             [projectFile EXCEPT !.cfg = ClearRestricted(@)]).cfg,
                  flags).cfg

(* C3 *)

\* C3: every mount the loaded Config keeps from the project file has a safe
\* source; a project mount through a symlink that leaves the project root is
\* absent from the merged list.
C3_ProjectMountsContained ==
    (pc = "loaded" /\ ProjectOk) =>
        \A m \in Range(projectFile.cfg.Mounts) :
            m \in Range(cfg.Mounts) => SafeProjectSource(MountSource(m))

(* C4 *)

\* C4: an image beginning with "-" that the project file gives is cleared in
\* the merge, and the image token of the built vector never begins with "-"
\* because of the project file's value.
C4_ProjectImageNoDash ==
    (ProjectOk /\ HasPrefix(projectFile.cfg.Image, "-")) =>
        /\ pc = "loaded" => cfg.Image # projectFile.cfg.Image
        /\ (Built /\ flags.Image = "") =>
               ImageToken(args, command) # projectFile.cfg.Image

(* C5 *)

MergeCalled == call.op = "mergeConfig" /\ call.done

\* what a right-biased merge leaves in field f of the set fs
RightBiased(fs) ==
    \A f \in fs :
        call.out[f] =
            IF f \in StringFields
            THEN (IF call.src[f] # "" THEN call.src[f] ELSE call.dst[f])
            ELSE (IF call.src[f] THEN TRUE ELSE call.dst[f])

\* C5 as stated: every string field and every boolean field of the Config,
\* the run-setup-on-start boolean included, is taken from src when src sets it
\* and from dst otherwise; an all-empty src leaves dst unchanged.
C5_RightBiasedEveryField ==
    MergeCalled =>
        /\ RightBiased(StringFields \cup BoolFields \cup {"Setup"})
        /\ call.src = ZeroConfig => call.out = call.dst

\* C5 amended: every string field and every boolean field that a config file
\* can hold is taken from src when src sets it and from dst otherwise; the
\* runtime-only Setup boolean is never copied and keeps dst's value; an
\* all-empty src leaves dst unchanged in every field.
C5_RightBiasedPersistedFields ==
    MergeCalled =>
        /\ RightBiased(StringFields \cup BoolFields)
        /\ call.out.Setup = call.dst.Setup
        /\ call.src = ZeroConfig => call.out = call.dst

\* a src that sets one string over a dst that has every field set
C5_Witness ==
    /\ MergeCalled
    /\ call.dst = FullConfig
    /\ call.src = Single("Image", "img-p")
    /\ call.out.Image = "img-p"
    /\ call.out.Runtime = "docker"
    /\ call.out.SSHAgent

(* C6 *)

\* the list the two config files leave in field f: the project file's when it
\* defines an entry, else the global file's (the defaults define none)
FileLists(f) ==
    IF Len(projectFile.cfg[f]) > 0 THEN projectFile.cfg[f] ELSE globalFile.cfg[f]

\* C6: after loadConfig, mounts and env are the list of the highest config
\* file that defines an entry, with nothing of the lower file; after
\* parseBaseFlags they are that list followed by the --mount/--env values in
\* the order given.
C6_ListsReplacedThenAppended ==
    \A f \in ListFields :
        /\ pc = "loaded" => cfg[f] = FileLists(f)
        /\ pc = "parsed" => cfg[f] = FileLists(f) \o flags[f]

\* both files define mounts and the command line gives two more
C6_Witness ==
    /\ pc = "parsed"
    /\ Len(globalFile.cfg.Mounts) = 2
    /\ Len(projectFile.cfg.Mounts) = 2
    /\ Len(flags.Mounts) = 2
    /\ globalFile.cfg.Mounts # projectFile.cfg.Mounts
    /\ cfg.Mounts = projectFile.cfg.Mounts \o flags.Mounts

(* C7 *)

Unset(f) == IF f \in StringFields THEN "" ELSE IF f \in BoolFields THEN FALSE ELSE <<>>

\* the layers, lowest first, that give field f a value
LayersSetting(f) ==
    {l \in {"default", "global", "project", "cli"} :
        CASE l = "default" -> defaultConfig[f] # Unset(f)
          [] l = "global" -> globalFile.cfg[f] # Unset(f)
          [] l = "project" -> projectFile.cfg[f] # Unset(f)
          [] l = "cli" -> flags[f] # Unset(f)}

\* the value of field f in the highest-priority layer that sets it
Highest(f) ==
    IF flags[f] # Unset(f) THEN flags[f]
    ELSE IF projectFile.cfg[f] # Unset(f) THEN projectFile.cfg[f]
    ELSE IF globalFile.cfg[f] # Unset(f) THEN globalFile.cfg[f]
    ELSE defaultConfig[f]

\* C7 as stated: every field set in more than one layer, mounts and env
\* included, holds the value of the highest-priority layer that sets it.
C7_HighestLayerWinsEveryField ==
    pc = "parsed" =>
        \A f \in StringFields \cup BoolFields \cup ListFields :
            Cardinality(LayersSetting(f)) > 1 => cfg[f] = Highest(f)

\* C7 amended: every string and boolean field set in more than one layer
\* holds the value of the highest-priority layer that sets it (CLI > project
\* > global > defaults); mounts and env hold the list of the highest config
\* file that sets them followed by the values given on the command line.
C7_HighestLayerWinsScalars ==
    pc = "parsed" =>
        /\ \A f \in StringFields \cup BoolFields :
               Cardinality(LayersSetting(f)) > 1 => cfg[f] = Highest(f)
        /\ \A f \in ListFields :
               Cardinality(LayersSetting(f)) > 1 =>
                   cfg[f] = FileLists(f) \o flags[f]

\* the image is set by the defaults, both files and the command line
C7_Witness ==
    /\ pc = "parsed"
    /\ LayersSetting("Image") = {"default", "global", "project", "cli"}
    /\ cfg.Image = flags.Image
    /\ cfg.Image # projectFile.cfg.Image

(* C8 *)

\* loadConfig has returned and nothing after it has run
LoadReturned ==
    \/ pc = "loaded"
    \/ pc = "failed" /\ sub = "" /\ flags = NoFlags /\ err \in {"home", "stat", "toml"}

\* loadConfig was called and the run is not the setup subcommand
LoadCalled == pc # "start" /\ sub # "setup"

Malformed(file) == file.state = "malformed"

Usable(file) == file.state \in {"ok", "missing"}

\* C8: a missing config file is skipped without error, the Config staying as
\* the other layers made it; a file that is present but does not parse makes
\* loadConfig fail with an error and the zero Config, whatever the other
\* layer held.
C8_MissingSkippedMalformedFatal ==
    /\ (LoadReturned /\ globalFile.state = "missing" /\ Usable(projectFile)) =>
           /\ pc = "loaded"
           /\ cfg = mergeConfig(defaultConfig, projectFile.cfg)
    /\ (LoadReturned /\ projectFile.state = "missing" /\ Usable(globalFile)) =>
           /\ pc = "loaded"
           /\ cfg = mergeConfig(defaultConfig, globalFile.cfg)
    /\ (LoadCalled /\ (Malformed(globalFile) \/ Malformed(projectFile))) =>
           /\ pc = "failed"
           /\ err # ""
           /\ cfg = ZeroConfig

\* the global file sets the image and the project file does not parse
C8_Witness ==
    /\ pc = "failed"
    /\ globalFile.state = "ok"
    /\ globalFile.cfg.Image = "img-g"
    /\ Malformed(projectFile)
    /\ err = "toml"
    /\ cfg = ZeroConfig

(* C9 *)

\* the values that follow a "--network" token among the runtime's flags
RECURSIVE NetworkValues(_)
NetworkValues(a) ==
    IF Len(a) < 2 THEN <<>>
    ELSE IF Head(a) = "--network"
         THEN <<a[2]>> \o NetworkValues(SubSeq(a, 3, Len(a)))
         ELSE NetworkValues(Tail(a))

\* C9: the built vector carries "--network none" alone when no_network is
\* set, "--network <name>" alone when only a network name is set, and no
\* "--network" token when neither is set.
C9_ExactlyOneNetworkChoice ==
    Built =>
        /\ NetworkValues(FlagPart(args, command)) =
               IF cfg.NoNetwork THEN <<"none">>
               ELSE IF cfg.Network # "" THEN <<cfg.Network>>
               ELSE <<>>
        /\ (~cfg.NoNetwork /\ cfg.Network = "") =>
               "--network" \notin Range(FlagPart(args, command))

\* a Config with both no_network and a network name was built
C9_Witness ==
    /\ Built
    /\ cfg.NoNetwork
    /\ cfg.Network = "dev_network"
    /\ NetworkValues(FlagPart(args, command)) = <<"none">>

(* C10 *)

\* the values that follow a "-v" token among the runtime's flags
RECURSIVE VolumeEntries(_)
VolumeEntries(a) ==
    IF Len(a) < 2 THEN <<>>
    ELSE IF Head(a) = "-v"
         THEN <<a[2]>> \o VolumeEntries(SubSeq(a, 3, Len(a)))
         ELSE VolumeEntries(Tail(a))

\* a -v value whose source is a volume name rather than a host path
IsNamedVolume(v) ==
    LET parts == SplitN(v, ":", 3)
    IN  Len(parts) >= 2 /\ ~IsAbs(parts[1])

OwnVolumes ==
    {"yolobox-home:/home/yolo", "yolobox-cache:/var/cache", "yolobox-output:/output"}

\* the -v values buildRunArgs makes of the Config's own mounts
ResolvedMounts ==
    {resolveMount(host, m, Abs(ProjectDir)).mount : m \in Range(cfg.Mounts)}

VolumeCount(v) ==
    Cardinality({i \in DOMAIN VolumeEntries(FlagPart(args, command)) :
                    VolumeEntries(FlagPart(args, command))[i] = v})

RECURSIVE FlagValues(_, _)
FlagValues(a, flag) ==
    IF Len(a) < 2 THEN <<>>
    ELSE IF Head(a) = flag
         THEN <<a[2]>> \o FlagValues(SubSeq(a, 3, Len(a)), flag)
         ELSE FlagValues(Tail(a), flag)

\* the project mount buildRunArgs makes: <abs>:<abs>, read-only or not
ProjectMount(ro) ==
    Abs(ProjectDir) \o ":" \o Abs(ProjectDir) \o (IF ro THEN ":ro" ELSE "")

C13_ImageThenCommandLast ==
    Built =>
        /\ Len(args) > Len(command)
        /\ ImageToken(args, command) = cfg.Image
        /\ SubSeq(args, Len(args) - Len(command) + 1, Len(args)) = command

\* "yolobox run make test" with an image from the project file
C13_Witness ==
    /\ Built
    /\ command = <<"make", "test">>
    /\ cfg.Image = "img-p"
    /\ args[Len(args) - 2] = "img-p"
    /\ args[Len(args)] = "test"

(* C14 *)

\* none of the options that forward something of the host is set
NoOptIn ==
    /\ cfg.Mounts = <<>>
    /\ ~cfg.SSHAgent
    /\ ~cfg.ClaudeConfig
    /\ ~cfg.GitConfig
    /\ ~cfg.GhToken
    /\ ~cfg.CopyAgentInstructions

\* the volumes yolobox manages itself
ManagedVolumes == OwnVolumes \cup {"/output"}

----------------------------------------------------------------------------
(* resolvePath and resolveMount called on any string *)

ResolvePaths ==
    {"", "~", "~/", "~/foo", "~/a/../b", "~//x/", "~foo", "~user/x", "./bar",
     "../up", ".", "/absolute/path", "/a/./b/", "relative", "vol"}

ResolveMounts ==
    {"no-colon", "", ":", ":/dst", "./src:", "./src:/app/src",
     "~/secrets:/secrets:ro", "/absolute:/dst", "vol:/data", "~:/h", "a:b:c:d",
     "~foo:/x", "../up:/up:rw", "./src::ro"}

ResolveBases == {"/project", "/work/proj", "/"}

\* the binaries a host may have on its search path, the names asked for
RuntimeBinaries == {"docker", "podman", "container", "nerdctl"}

RuntimeNames == {"", "docker", "podman", "container", "colima", "nerdctl"}

InitResolve ==
    /\ globalFile = NoFile("missing")
    /\ projectFile = NoFile("missing")
    /\ pc = "start"
    /\ sub = ""
    /\ flags = NoFlags
    /\ cfg = ZeroConfig
    /\ err = ""
    /\ wizard = NoWizard
    /\ command = <<>>
    /\ interactive = FALSE
    /\ args = <<>>
    /\ staging = {}
    /\ \/ /\ host \in {BaseHost, NoHomeHost}
          /\ \E b \in ResolveBases :
                \/ \E p \in ResolvePaths :
                      call = [op |-> "resolvePath", arg |-> p, base |-> b,
                              done |-> FALSE, out |-> [path |-> "", err |-> ""]]
                \/ \E m \in ResolveMounts :
                      call = [op |-> "resolveMount", arg |-> m, base |-> b,
                              done |-> FALSE, out |-> [mount |-> "", err |-> ""]]
       \/ /\ \E s \in SUBSET RuntimeBinaries : host = [BaseHost EXCEPT !.installed = s]
          /\ \E n \in RuntimeNames :
                call = [op |-> "resolveRuntime", arg |-> n, base |-> "",
                        done |-> FALSE, out |-> [path |-> "", err |-> ""]]

CallResolvePath ==
    /\ call.op = "resolvePath"
    /\ ~call.done
    /\ call' = [call EXCEPT !.done = TRUE,
                            !.out = resolvePath(host, call.arg, call.base)]
    /\ UNCHANGED <<globalFile, projectFile, pc, sub, flags, cfg, err, wizard,
                   command, interactive, host, args, staging>>

CallResolveMount ==
    /\ call.op = "resolveMount"
    /\ ~call.done
    /\ call' = [call EXCEPT !.done = TRUE,
                            !.out = resolveMount(host, call.arg, call.base)]
    /\ UNCHANGED <<globalFile, projectFile, pc, sub, flags, cfg, err, wizard,
                   command, interactive, host, args, staging>>

CallResolveRuntime ==
    /\ call.op = "resolveRuntime"
    /\ ~call.done
    /\ call' = [call EXCEPT !.done = TRUE, !.out = resolveRuntime(host, call.arg)]
    /\ UNCHANGED <<globalFile, projectFile, pc, sub, flags, cfg, err, wizard,
                   command, interactive, host, args, staging>>

NextResolve == CallResolvePath \/ CallResolveMount \/ CallResolveRuntime

SpecResolve == InitResolve /\ [][NextResolve]_vars

(* C15 *)

\* resolvePath has returned for a path that begins with "~" on a host whose
\* home directory is known
TildeResolved ==
    /\ call.op = "resolvePath"
    /\ call.done
    /\ HasPrefix(call.arg, "~")
    /\ host.homeOk

\* the same call gives the same result from every base
BaseIndependent ==
    \A b \in ResolveBases : resolvePath(host, call.arg, b) = call.out

MountResolved == call.op = "resolveMount" /\ call.done

\* the source, destination and options of a mount string
MountParts(m) == SplitN(m, ":", 3)

DestinationMissing(m) == Len(MountParts(m)) < 2 \/ MountParts(m)[2] = ""

\* C16: a mount src:dst[:opts] resolves to resolvePath(src) followed by the
\* destination and the options as written; a mount whose destination is
\* missing fails as an invalid mount and one whose source is empty fails with
\* the empty-path error, and a failure returns no mount string.
C16_MountResolvedOrRejected ==
    MountResolved =>
        LET parts == MountParts(call.arg)
            src == resolvePath(host, parts[1], call.base)
        IN  /\ call.out.err # "" => call.out.mount = ""
            /\ DestinationMissing(call.arg) =>
                   call.out.err \in {"invalid mount", "empty path"}
            /\ (~DestinationMissing(call.arg) /\ parts[1] = "") =>
                   call.out.err = "empty path"
            /\ (~DestinationMissing(call.arg) /\ src.err = "") =>
                   /\ call.out.err = ""
                   /\ call.out.mount =
                          src.path \o ":" \o parts[2]
                          \o (IF Len(parts) = 3 /\ parts[3] # ""
                              THEN ":" \o parts[3] ELSE "")

(* C17 *)

RuntimeResolved == call.op = "resolveRuntime" /\ call.done

\* the first name of the sequence that the host has on its search path
RECURSIVE FirstInstalled(_, _)
FirstInstalled(names, installed) ==
    IF names = <<>> THEN ""
    ELSE IF Head(names) \in installed THEN Head(names)
    ELSE FirstInstalled(Tail(names), installed)

\* the alias table of runtime names
RuntimeAlias(name) == IF name = "colima" THEN "docker" ELSE name

\* C17: the empty name resolves to the first of docker, podman, container on
\* the search path and fails exactly when there is none; a given name
\* resolves, after aliasing, to that binary when it is on the search path and
\* otherwise fails with an error that names the runtime that was asked for.
C17_RuntimeResolvedOrNamedError ==
    RuntimeResolved =>
        LET first == FirstInstalled(<<"docker", "podman", "container">>, host.installed)
        IN  /\ (call.arg = "" /\ first # "") =>
                   call.out = [path |-> "/usr/bin/" \o first, err |-> ""]
            /\ (call.arg = "" /\ first = "") =>
                   call.out = [path |-> "", err |-> "no container runtime found"]
            /\ (call.arg # "" /\ RuntimeAlias(call.arg) \in host.installed) =>
                   call.out = [path |-> "/usr/bin/" \o RuntimeAlias(call.arg), err |-> ""]
            /\ (call.arg # "" /\ RuntimeAlias(call.arg) \notin host.installed) =>
                   call.out = [path |-> "",
                               err |-> "runtime " \o call.arg \o " not found in PATH"]

----------------------------------------------------------------------------
(* splitToolArgs *)

\* the flags splitToolArgs knows, and those of them that take a value
knownFlags ==
    {"runtime", "image", "network", "ssh-agent", "readonly-project",
     "no-network", "no-yolo", "scratch", "claude-config", "git-config",
     "gh-token", "copy-agent-instructions", "setup", "mount", "env", "h", "help"}

flagsWithValues == {"runtime", "image", "network", "mount", "env"}

\* strings.TrimLeft(s, "-")
RECURSIVE TrimLeftDash(_)
TrimLeftDash(s) ==
    IF HasPrefix(s, "-") THEN TrimLeftDash(SubSeq(s, 2, Len(s))) ELSE s

\* the name of a flag token: the dashes trimmed, cut at the first "="
FlagName(arg) ==
    LET t == TrimLeftDash(arg)
        idx == Index(t, "=")
    IN  IF idx # 0 THEN SubSeq(t, 1, idx - 1) ELSE t

HasValue(arg) == Index(TrimLeftDash(arg), "=") # 0

\* the loop of splitToolArgs without the step that consumes a flag's value
RECURSIVE splitLoopNoValues(_, _, _)
splitLoopNoValues(a, i, yoloboxArgs) ==
    IF i > Len(a) THEN [yoloboxArgs |-> yoloboxArgs, toolArgs |-> <<>>]
    ELSE IF a[i] = "--"
    THEN [yoloboxArgs |-> yoloboxArgs, toolArgs |-> SubSeq(a, i + 1, Len(a))]
    ELSE IF ~HasPrefix(a[i], "-") \/ FlagName(a[i]) \notin knownFlags
    THEN [yoloboxArgs |-> yoloboxArgs, toolArgs |-> SubSeq(a, i, Len(a))]
    ELSE splitLoopNoValues(a, i + 1, Append(yoloboxArgs, a[i]))

\* the loop of splitToolArgs from position i (1-based) on
RECURSIVE splitLoop(_, _, _)
splitLoop(a, i, yoloboxArgs) ==
    IF i > Len(a) THEN [yoloboxArgs |-> yoloboxArgs, toolArgs |-> <<>>]
    ELSE IF a[i] = "--"
    THEN [yoloboxArgs |-> yoloboxArgs, toolArgs |-> SubSeq(a, i + 1, Len(a))]
    ELSE IF ~HasPrefix(a[i], "-") \/ FlagName(a[i]) \notin knownFlags
    THEN [yoloboxArgs |-> yoloboxArgs, toolArgs |-> SubSeq(a, i, Len(a))]
    ELSE IF /\ FlagName(a[i]) \in flagsWithValues
            /\ ~HasValue(a[i])
            /\ i + 1 <= Len(a)
            /\ ~HasPrefix(a[i + 1], "-")
    THEN splitLoop(a, i + 2, yoloboxArgs \o <<a[i], a[i + 1]>>)
    ELSE splitLoop(a, i + 1, Append(yoloboxArgs, a[i]))

\* splitToolArgs that never consumes the value of a flag
splitToolArgsNoValues(a) == splitLoopNoValues(a, 1, <<>>)

splitToolArgs(a) == splitLoop(a, 1, <<>>)

\* the longest argument list given after a tool shortcut
MaxArgs == 4

ToolTokens ==
    {"--scratch", "--runtime", "docker", "--", "--resume", "--image=img", "-p",
     "-network"}

InitSplit ==
    /\ globalFile = NoFile("missing")
    /\ projectFile = NoFile("missing")
    /\ Idle
    /\ \E a \in SeqsUpTo(ToolTokens, MaxArgs) :
          call = [op |-> "splitToolArgs", arg |-> a, done |-> FALSE,
                  out |-> [yoloboxArgs |-> <<>>, toolArgs |-> <<>>]]

CallSplitToolArgs ==
    /\ call.op = "splitToolArgs"
    /\ ~call.done
    /\ call' = [call EXCEPT !.done = TRUE, !.out = splitToolArgs(call.arg)]
    /\ UNCHANGED <<globalFile, projectFile, pc, sub, flags, cfg, err, wizard,
                   command, interactive, host, args, staging>>

SpecSplit == InitSplit /\ [][CallSplitToolArgs]_vars

(* C18 *)

SplitDone == call.op = "splitToolArgs" /\ call.done

IsKnownFlag(tok) == HasPrefix(tok, "-") /\ tok # "--" /\ FlagName(tok) \in knownFlags

\* tok at position i of a is the value of the value-taking flag before it
IsConsumedValue(a, i) ==
    /\ i > 1
    /\ ~HasPrefix(a[i], "-")
    /\ IsKnownFlag(a[i - 1])
    /\ FlagName(a[i - 1]) \in flagsWithValues
    /\ ~HasValue(a[i - 1])

\* position i of a belongs to the leading run of yolobox flags and values
InLeadingRun(a, i) == IsKnownFlag(a[i]) \/ IsConsumedValue(a, i)

\* C18: yoloboxArgs is the longest prefix of args made of known flags and the
\* values they consume; toolArgs is everything from the first other token on,
\* in order, that token itself left out only when it is the "--" separator;
\* so the two together are args with at most one "--" removed.
C18_SplitAtFirstForeignToken ==
    SplitDone =>
        LET a == call.arg
            y == call.out.yoloboxArgs
            t == call.out.toolArgs
            k == Len(y)
        IN  /\ k <= Len(a)
            /\ y = SubSeq(a, 1, k)
            /\ \A i \in 1..k : InLeadingRun(a, i)
            /\ k < Len(a) => ~InLeadingRun(a, k + 1)
            /\ t = IF k < Len(a) /\ a[k + 1] = "--"
                   THEN SubSeq(a, k + 2, Len(a))
                   ELSE SubSeq(a, k + 1, Len(a))
            /\ \/ y \o t = a
               \/ \E i \in 1..Len(a) :
                     /\ a[i] = "--"
                     /\ y \o t = SubSeq(a, 1, i - 1) \o SubSeq(a, i + 1, Len(a))

\* a flag with its value, the separator, and a tool flag after it
C18_Witness ==
    /\ SplitDone
    /\ call.arg = <<"--runtime", "docker", "--", "--resume">>
    /\ call.out.yoloboxArgs = <<"--runtime", "docker">>
    /\ call.out.toolArgs = <<"--resume">>

----------------------------------------------------------------------------
(* resolveShell *)

\* the shells a Config or the environment may select
allowedShells == {"bash", "fish"}

defaultShell == "bash"

RECURSIVE TrimTrailingSlashes(_)
TrimTrailingSlashes(s) ==
    IF Len(s) > 1 /\ HasSuffix(s, "/")
    THEN TrimTrailingSlashes(SubSeq(s, 1, Len(s) - 1))
    ELSE s

\* filepath.Base: the last element of the path, trailing slashes removed
Base(path) ==
    IF path = "" THEN "."
    ELSE LET t == TrimTrailingSlashes(path)
             segs == SplitSlash(t)
         IN  IF t = "/" THEN "/" ELSE segs[Len(segs)]

\* resolveShell with the environment's shell consulted before the Config's
resolveShellEnvFirst(c, shellEnv) ==
    IF shellEnv # "" /\ Base(shellEnv) \in allowedShells
    THEN [shell |-> Base(shellEnv), detected |-> TRUE, unsupported |-> ""]
    ELSE IF c.Shell # ""
    THEN [shell |-> c.Shell, detected |-> FALSE, unsupported |-> ""]
    ELSE IF shellEnv = ""
    THEN [shell |-> defaultShell, detected |-> FALSE, unsupported |-> ""]
    ELSE [shell |-> defaultShell, detected |-> FALSE, unsupported |-> Base(shellEnv)]

\* resolveShell(cfg, shellEnv): the shell, whether it was detected from the
\* environment, and the name that was rejected
resolveShell(c, shellEnv) ==
    IF c.Shell # ""
    THEN [shell |-> c.Shell, detected |-> FALSE, unsupported |-> ""]
    ELSE IF shellEnv = ""
    THEN [shell |-> defaultShell, detected |-> FALSE, unsupported |-> ""]
    ELSE IF Base(shellEnv) \in allowedShells
    THEN [shell |-> Base(shellEnv), detected |-> TRUE, unsupported |-> ""]
    ELSE [shell |-> defaultShell, detected |-> FALSE, unsupported |-> Base(shellEnv)]

\* the shells of a validated Config: none, or one of the allowed
ConfigShells == {""} \cup allowedShells

ShellEnvs ==
    {"", "/bin/bash", "/usr/bin/fish", "/opt/homebrew/bin/fish", "/bin/zsh",
     "/bin/sh", "/bin/tcsh", "/usr/bin/fish/", "/usr/bin//fish", "fish", "bash",
     "/bin/BASH", "Fish", "/bin/fish//", "zsh", "/usr/bin/bash-5", "/bin/fishy",
     "//bin//bash", "/usr/local/bin/FISH", "/bin/fish/zsh"}

InitShell ==
    /\ globalFile = NoFile("missing")
    /\ projectFile = NoFile("missing")
    /\ Idle
    /\ \E s \in ConfigShells, e \in ShellEnvs :
          call = [op |-> "resolveShell", cfg |-> [Shell |-> s], shellEnv |-> e,
                  done |-> FALSE,
                  out |-> [shell |-> "", detected |-> FALSE, unsupported |-> ""]]

CallResolveShell ==
    /\ call.op = "resolveShell"
    /\ ~call.done
    /\ call' = [call EXCEPT !.done = TRUE,
                            !.out = resolveShell(call.cfg, call.shellEnv)]
    /\ UNCHANGED <<globalFile, projectFile, pc, sub, flags, cfg, err, wizard,
                   command, interactive, host, args, staging>>

SpecShell == InitShell /\ [][CallResolveShell]_vars

(* C19 *)

ShellResolved == call.op = "resolveShell" /\ call.done

\* the last non-empty element of a slash-separated hint, "" when it has none
RECURSIVE LastElement(_)
LastElement(segs) ==
    IF segs = <<>> THEN ""
    ELSE IF segs[Len(segs)] # "" THEN segs[Len(segs)]
    ELSE LastElement(SubSeq(segs, 1, Len(segs) - 1))

\* C19: a shell named by the Config is the result, not detected and with
\* nothing rejected, whatever the environment says; with none named, the last
\* element of the environment's hint is returned as detected when it is
\* exactly bash or fish, otherwise bash is returned with that element recorded
\* as rejected, and an empty hint gives bash with nothing rejected.
C19_ShellFromConfigOrEnvironment ==
    ShellResolved =>
        LET name == LastElement(SplitSlash(call.shellEnv))
        IN  /\ call.cfg.Shell # "" =>
                   call.out = [shell |-> call.cfg.Shell, detected |-> FALSE,
                               unsupported |-> ""]
            /\ (call.cfg.Shell = "" /\ call.shellEnv = "") =>
                   call.out = [shell |-> "bash", detected |-> FALSE, unsupported |-> ""]
            /\ (call.cfg.Shell = "" /\ name \in {"bash", "fish"}) =>
                   call.out = [shell |-> name, detected |-> TRUE, unsupported |-> ""]
            /\ (call.cfg.Shell = "" /\ call.shellEnv # "" /\ name \notin {"bash", "fish"}) =>
                   call.out = [shell |-> "bash", detected |-> FALSE, unsupported |-> name]

\* the Config names fish while the environment offers bash
C19_Witness ==
    /\ ShellResolved
    /\ call.cfg.Shell = "fish"
    /\ call.shellEnv = "/bin/bash"
    /\ call.out.shell = "fish"
    /\ ~call.out.detected

(* C20 *)

BuildReturned == pc \in {"done", "failed"} /\ sub = "run"

\* the candidate host paths the Config makes buildRunArgs look at
Candidates ==
    (IF cfg.ClaudeConfig THEN {claudeConfigDir, claudeConfigFile} ELSE {})
    \cup (IF cfg.GitConfig THEN {gitConfigFile} ELSE {})
    \cup (IF cfg.CopyAgentInstructions
          THEN {claudeMd, geminiMd, codexMd, copilotAgents} ELSE {})

\* C20: when the stat of a candidate fails with an error other than
\* not-found, buildRunArgs returns that error and no arguments; a candidate
\* that is not found is only left out.
C20_StatErrorAbortsBuild ==
    (BuildReturned /\ host.homeOk) =>
        /\ (\E q \in Candidates : host.stat[q] = "error") =>
               /\ pc = "failed"
               /\ err = "stat"
               /\ args = <<>>
        /\ \A q \in Candidates :
               host.stat[q] = "notfound" =>
                   \A v \in Range(VolumeEntries(FlagPart(args, command))) :
                       MountSource(v) # q

(* C21 *)

\* the errors buildRunArgs itself returns
BuildErrors ==
    {"home", "invalid mount", "empty path", "failed to create temp dir for file mounts"}

BuildFailed == BuildReturned /\ pc = "failed" /\ err \in BuildErrors

\* some extra mount of the Config does not resolve on this host
SomeMountInvalid ==
    \E i \in DOMAIN cfg.Mounts :
        resolveMount(host, cfg.Mounts[i], Abs(ProjectDir)).err # ""

\* C21: when buildRunArgs returns an error it returns no arguments, and it
\* returns an error whenever one of the extra mounts, at any position of the
\* list, does not resolve.
C21_NoPartialInvocation ==
    /\ BuildFailed => args = <<>>
    /\ (BuildReturned /\ SomeMountInvalid) => BuildFailed

\* the second of two mounts is invalid
C21_Witness ==
    /\ BuildFailed
    /\ err = "invalid mount"
    /\ Len(cfg.Mounts) = 2
    /\ resolveMount(host, cfg.Mounts[1], Abs(ProjectDir)).err = ""
    /\ args = <<>>

(* C22 *)

\* the host of the build with only docker, and with only Apple's container tool
DockerView ==
    buildRunArgs(cfg, ProjectDir, command, interactive,
                 [host EXCEPT !.installed = {"docker"}])

AppleView ==
    buildRunArgs(cfg, ProjectDir, command, interactive,
                 [host EXCEPT !.installed = {"container"}])

\* the host files (not directories) that may be handed to the container
FileCandidates ==
    {claudeConfigFile, gitConfigFile, claudeMd, geminiMd, codexMd, credsPath}

\* the files a build exposes through one -v mount each
ExposedByMounts(r) ==
    {q \in FileCandidates :
        \E v \in Range(VolumeEntries(FlagPart(r.args, command))) : MountSource(v) = q}

\* the files a build exposes through the staging directory
ExposedByStaging(r) ==
    IF \E v \in Range(VolumeEntries(FlagPart(r.args, command))) :
           HasSuffix(v, ":/host-files:ro")
    THEN {f[1] : f \in {g \in r.files : g[2] \in r.staged}}
    ELSE {}

\* C22: for the same Config and the same host files, the files exposed by
\* per-file mounts (docker) are exactly the files exposed through the staging
\* directory (Apple container), whenever both builds succeed.
C22_StrategiesExposeSameFiles ==
    (BuildReturned /\ DockerView.err = "" /\ AppleView.err = "") =>
        ExposedByMounts(DockerView) = ExposedByStaging(AppleView)

(* C23 *)

\* the position of the project mount among the runtime's flags, 0 if absent
RECURSIVE PositionOf(_, _, _)
PositionOf(a, tok, i) ==
    IF i > Len(a) THEN 0
    ELSE IF a[i] = tok THEN i
    ELSE PositionOf(a, tok, i + 1)

\* the -e values emitted before the project mount
EnvBeforeProjectMount ==
    LET a == FlagPart(args, command)
        ip == PositionOf(a, ProjectMount(cfg.ReadonlyProject), 1)
    IN  FlagValues(SubSeq(a, 1, ip - 1), "-e")

\* the allow-listed names that are non-empty in the environment, in list order
ForwardedNames == SelectSeq(autoPassthroughEnvVars, LAMBDA n : host.env[n] # "")

\* what the claim expects after the builder's own first entries
ExpectedForwarding ==
    [i \in 1..Len(ForwardedNames) |->
        ForwardedNames[i] \o "=" \o host.env[ForwardedNames[i]]]
    \o (IF cfg.GhToken /\ host.ghToken # "" THEN <<"GH_TOKEN=" \o host.ghToken>> ELSE <<>>)
    \o cfg.Env

\* the number of entries of the base step: markers, NO_YOLO, TERM, LANG
BaseEnvCount ==
    2 + (IF cfg.NoYolo THEN 1 ELSE 0)
      + (IF host.env["TERM"] # "" THEN 1 ELSE 0)
      + (IF host.env["LANG"] # "" THEN 1 ELSE 0)

C24_ResolutionIdempotent ==
    /\ (call.op = "resolvePath" /\ call.done /\ call.out.err = "") =>
           resolvePath(host, call.out.path, call.base) = call.out
    /\ (MountResolved /\ call.out.err = "") =>
           resolveMount(host, call.out.mount, call.base) = call.out

\* a mount below the home directory, with options, resolved a second time
C24_Witness ==
    /\ MountResolved
    /\ call.arg = "~/secrets:/secrets:ro"
    /\ call.base = "/project"
    /\ call.out.mount = "/home/u/secrets:/secrets:ro"
    /\ resolveMount(host, call.out.mount, call.base).mount = call.out.mount

----------------------------------------------------------------------------
(* several invocations of buildRunArgs at once on one host *)

\* the number of invocations running at once
NumInvocations == 2

\* the names os.MkdirTemp may pick for the pattern yolobox-mounts-*
TmpNames == {"/tmp/yolobox-mounts-1", "/tmp/yolobox-mounts-2", "/tmp/yolobox-mounts-3"}

ConcurrentConfigs ==
    {[ZeroConfig EXCEPT !.Image = "test-image", !.ClaudeConfig = cc, !.GitConfig = gc] :
        cc \in BOOLEAN, gc \in BOOLEAN}

\* the steps of buildRunArgs through the Claude config step, which writes the
\* credentials file
CredentialSteps == SubSeq(BuildSteps, 1, 7)

\* Each invocation: where it is, its Config, the host paths it has created,
\* the arguments it returned.
\* writers maps a host path to the invocations that created or wrote it.
InitConcurrent ==
    /\ globalFile = NoFile("missing")
    /\ projectFile = NoFile("missing")
    /\ pc = "start"
    /\ sub = ""
    /\ flags = NoFlags
    /\ cfg = ZeroConfig
    /\ err = ""
    /\ wizard = NoWizard
    /\ command = <<"bash">>
    /\ interactive = TRUE
    /\ host \in {AppleHost, FilesHost}
    /\ args = <<>>
    /\ staging = {}
    /\ \E cs \in [1..NumInvocations -> ConcurrentConfigs] :
          call = [op |-> "concurrent",
                  inv |-> [i \in 1..NumInvocations |->
                              [at |-> "start", cfg |-> cs[i], created |-> {},
                               args |-> <<>>]],
                  writers |-> [q \in TmpNames \cup {credsPath} |-> {}]]

\* the paths marked as written by invocation i
Wrote(w, paths, i) == [q \in DOMAIN w |-> IF q \in paths THEN w[q] \cup {i} ELSE w[q]]

\* invocation i runs buildRunArgs through the Claude config step
BuildToCredentials(i) ==
    /\ call.op = "concurrent"
    /\ call.inv[i].at = "start"
    /\ \E r \in {buildFrom(CredentialSteps, BuildStart, call.inv[i].cfg,
                           Abs(ProjectDir), command, interactive, host,
                           isAppleContainer(host, call.inv[i].cfg.Runtime))} :
          call' = [call EXCEPT !.inv[i].at = "credentials",
                               !.inv[i].created = r.created,
                               !.writers = Wrote(@, r.created, i)]
    /\ UNCHANGED <<globalFile, projectFile, pc, sub, flags, cfg, err, wizard,
                   command, interactive, host, args, staging>>

\* invocation i runs the rest of buildRunArgs; os.MkdirTemp picks a name that
\* does not exist yet
BuildToEnd(i) ==
    /\ call.op = "concurrent"
    /\ call.inv[i].at = "credentials"
    /\ \E n \in {t \in TmpNames : call.writers[t] = {}} :
       \E r \in {buildRunArgs(call.inv[i].cfg, ProjectDir, command, interactive,
                              [host EXCEPT !.tmpDir = n])} :
          call' = [call EXCEPT !.inv[i].at = "returned",
                               !.inv[i].created = r.created,
                               !.inv[i].args = r.args,
                               !.writers = Wrote(@, r.created \ call.inv[i].created, i)]
    /\ UNCHANGED <<globalFile, projectFile, pc, sub, flags, cfg, err, wizard,
                   command, interactive, host, args, staging>>

NextConcurrent ==
    \E i \in 1..NumInvocations : BuildToCredentials(i) \/ BuildToEnd(i)

SpecConcurrent == InitConcurrent /\ [][NextConcurrent]_vars

(* C25 *)

\* C25: every file or directory an invocation creates to hand credentials to
\* the container is created by that invocation alone; no path is written by
\* two invocations.
C25_StagingNeverShared ==
    call.op = "concurrent" =>
        \A q \in DOMAIN call.writers : Cardinality(call.writers[q]) <= 1

(* C26 *)

\* two invocations with the same inputs have both returned
SameCallTwice(i, j) ==
    /\ call.op = "concurrent"
    /\ i # j
    /\ call.inv[i].at = "returned"
    /\ call.inv[j].at = "returned"
    /\ call.inv[i].cfg = call.inv[j].cfg

\* the arguments with the name of the staging directory blanked
WithoutStagingName(a) ==
    [k \in DOMAIN a |->
        IF HasSuffix(a[k], ":/host-files:ro") THEN "<staging>:/host-files:ro" ELSE a[k]]

SetupSaved == pc = "done" /\ sub = "setup" /\ err = ""

\* C27: after a run of the setup wizard that saved, the global config file
\* does not hold both a network name and no_network = true, so that a later
\* parseBaseFlags without flags does not reject it.
C27_SetupSavesAcceptedConfig ==
    SetupSaved =>
        /\ ~networkConflict(globalFile.cfg)
        /\ LET l == loadConfig(globalFile, projectFile)
           IN  l.err = "" => parseBaseFlags(l.cfg, NoFlags).err = ""

(* C28 *)

\* the settings the wizard does not ask about
FrameFields ==
    {"Runtime", "Image", "Mounts", "Env", "Network", "Scratch", "ReadonlyProject",
     "ClaudeConfig", "CopyAgentInstructions"}

\* the step of runSetup that saves
SetupSaves == pc = "start" /\ pc' = "done" /\ sub' = "setup"

\* C28: a run of the setup wizard that saves leaves every setting other than
\* the five wizard options in the global config file as it was: none is lost
\* and none is taken over from the project config file.
C28_SetupFrame ==
    [][SetupSaves => \A f \in FrameFields : globalFile'.cfg[f] = globalFile.cfg[f]]_vars

(* C29 *)

\* the variable name of an environment entry NAME=value
RECURSIVE VarName(_)
VarName(s) ==
    IF s = "" \/ SubSeq(s, 1, 1) = "=" THEN ""
    ELSE SubSeq(s, 1, 1) \o VarName(SubSeq(s, 2, Len(s)))

\* the -e entries of the built arguments that do not come from Config.Env
OwnEnvEntries ==
    SelectSeq(FlagValues(FlagPart(args, command), "-e"),
              LAMBDA e : e \notin Range(cfg.Env))

\* C29: the -e entries the builder emits by itself (marker, TERM/LANG,
\* allow-list, gh token, ssh socket, staging directory) name every variable
\* at most once, so GH_TOKEN is emitted once even when gh_token is set and
\* GH_TOKEN is non-empty in the host environment.
C29_NoVariableTwice ==
    Built =>
        \A i, j \in DOMAIN OwnEnvEntries :
            i # j => VarName(OwnEnvEntries[i]) # VarName(OwnEnvEntries[j])

(* C30 *)

\* C30: when buildRunArgs returns an error, no staging directory and no
\* credentials file that the call created is left on the host.
C30_FailedBuildLeavesNothing ==
    BuildFailed => staging = {}

====
